---- MODULE Spec2Model ----
(***************************************************************************)
(* Model of BackpropagationTutorial.ipynb: a two-layer sigmoid network,    *)
(* its forward pass, its hand-written backpropagation and the batch        *)
(* gradient-descent loop that trains it.                                   *)
(*                                                                         *)
(* Numbers.  numpy works on IEEE-754 doubles.  The model keeps what the    *)
(* properties below depend on: finite precision (every product, quotient, *)
(* sigmoid and logarithm is rounded to the nearest representable value),   *)
(* and the non-finite results inf, -inf and nan, which numpy produces      *)
(* instead of raising (x/0, log(0), 0*inf).  A finite number is an integer *)
(* count of units of 1/ONE.  As with doubles, sigmoid(x) rounds to exactly *)
(* 1 (or 0) once |x| is large enough; only the threshold differs.          *)
(*                                                                         *)
(* Arrays.  A numpy array is a record of its shape (a sequence of 0, 1 or  *)
(* 2 dimensions), its elements in row-major order and an error flag; an    *)
(* operation numpy rejects with a ValueError yields ValueError, which      *)
(* every later operation propagates, as a raised exception would.          *)
(***************************************************************************)
EXTENDS Integers, Sequences, FiniteSets, TLC

\* ------------------------------------------------------------------ bounds

\* Largest batch size N of a generated dataset.
MaxN == 2
\* Largest epoch count E of a run (the notebook fixes epochs = 2000).
MaxEpochs == 2
\* Largest hidden width, and largest length of b1 and W2, of a direct call.
MaxH == 3
\* Largest number of columns of X and of W1 in a direct call.
MaxD == 2
\* Number of copies of one example in a repeated batch.
MaxBatch == 3

\* ----------------------------------------------------------------- numbers

\* The fixed-point unit: the finite number x is the integer x * ONE.
ONE == 16

Fin(n) == [k |-> "fin", v |-> n]
PosInf == [k |-> "inf", v |-> 0]
NegInf == [k |-> "ninf", v |-> 0]
NaN    == [k |-> "nan", v |-> 0]

IsFin(a) == a.k = "fin"

Abs(n) == IF n < 0 THEN 0 - n ELSE n
Sgn(n) == IF n < 0 THEN 0 - 1 ELSE IF n > 0 THEN 1 ELSE 0

\* Sign of a number that is not nan: -1, 0 or 1.
SignOf(a) == IF a.k = "inf" THEN 1 ELSE IF a.k = "ninf" THEN 0 - 1 ELSE Sgn(a.v)

\* a / b for integers, b > 0, rounded to the nearest integer (ties away from
\* zero): the rounding step of every inexact operation.
RoundDiv(a, b) == Sgn(a) * ((2 * Abs(a) + b) \div (2 * b))

InfOfSign(s) == IF s > 0 THEN PosInf ELSE NegInf

Neg(a) ==
    IF a.k = "fin" THEN Fin(0 - a.v)
    ELSE IF a.k = "inf" THEN NegInf
    ELSE IF a.k = "ninf" THEN PosInf
    ELSE NaN

Add(a, b) ==
    IF a.k = "nan" \/ b.k = "nan" THEN NaN
    ELSE IF IsFin(a) /\ IsFin(b) THEN Fin(a.v + b.v)
    ELSE IF IsFin(a) THEN b
    ELSE IF IsFin(b) THEN a
    ELSE IF a.k = b.k THEN a
    ELSE NaN

Sub(a, b) == Add(a, Neg(b))

Mul(a, b) ==
    IF a.k = "nan" \/ b.k = "nan" THEN NaN
    ELSE IF IsFin(a) /\ IsFin(b) THEN Fin(RoundDiv(a.v * b.v, ONE))
    ELSE IF SignOf(a) = 0 \/ SignOf(b) = 0 THEN NaN
    ELSE InfOfSign(SignOf(a) * SignOf(b))

\* numpy's true division: x/0 is +-inf, 0/0 is nan; no exception is raised.
Div(a, b) ==
    IF a.k = "nan" \/ b.k = "nan" THEN NaN
    ELSE IF IsFin(a) /\ IsFin(b) THEN
        IF b.v = 0
        THEN (IF a.v = 0 THEN NaN ELSE InfOfSign(Sgn(a.v)))
        ELSE Fin(Sgn(b.v) * RoundDiv(a.v * ONE, Abs(b.v)))
    ELSE IF IsFin(b) THEN InfOfSign(SignOf(a) * (IF b.v < 0 THEN 0 - 1 ELSE 1))
    ELSE IF IsFin(a) THEN Fin(0)
    ELSE NaN

\* round(ONE * ln(v / ONE)) for v = 1 .. ONE.
LogTable == <<-44, -33, -27, -22, -19, -16, -13, -11, -9, -8, -6, -5, -3, -2, -1, 0>>

\* np.log on the predictions: log(0) is -inf, the log of a negative is nan.
Log(a) ==
    IF a.k = "fin" THEN
        (IF a.v = 0 THEN NegInf
         ELSE IF a.v < 0 THEN NaN
         ELSE Fin(LogTable[a.v]))
    ELSE IF a.k = "inf" THEN PosInf
    ELSE NaN

\* The arguments k >= 0 (in units) at which round(ONE / (1 + exp(-k/ONE)))
\* steps up by one unit, starting from ONE/2 at k = 0; it is ONE from the
\* last step on.
SigmoidSteps == <<3, 7, 11, 16, 21, 27, 37, 55>>

SigmoidUnits(n) ==
    LET up(m) == (ONE \div 2) + Cardinality({i \in 1..Len(SigmoidSteps) : SigmoidSteps[i] <= m})
    IN  IF n >= 0 THEN up(n) ELSE ONE - up(0 - n)

\* scipy.special.expit on one element.
Expit(a) ==
    IF a.k = "fin" THEN Fin(SigmoidUnits(a.v))
    ELSE IF a.k = "inf" THEN Fin(ONE)
    ELSE IF a.k = "ninf" THEN Fin(0)
    ELSE NaN

\* ------------------------------------------------------------------ arrays

\* An array of the given shape; its elements are kept as a sequence.
Arr(shape, data) == [shape |-> shape, data |-> data \o <<>>, err |-> FALSE]

\* The outcome of an operation numpy rejects (shapes not aligned, operands
\* that could not be broadcast together, a reshape that changes the size).
ValueError == [shape |-> <<>>, data |-> <<>>, err |-> TRUE]

\* A Python or numpy scalar.
Scalar(x) == Arr(<<>>, <<x>>)

\* A name bound to nothing yet.
None == [shape |-> <<0>>, data |-> <<>>, err |-> FALSE]

Rank(a) == Len(a.shape)
Rows(a) == IF Rank(a) = 2 THEN a.shape[1] ELSE 1
Cols(a) == IF Rank(a) = 2 THEN a.shape[2] ELSE IF Rank(a) = 1 THEN a.shape[1] ELSE 1
Max(m, n) == IF m >= n THEN m ELSE n

\* Element (i, j) of a, a scalar or vector being read as one row.
At(a, i, j) == a.data[(i - 1) * Cols(a) + j]

\* Element (i, j) of a broadcast to a larger shape: a dimension of size 1 is
\* repeated.
BAt(a, i, j) == At(a, IF Rows(a) = 1 THEN 1 ELSE i, IF Cols(a) = 1 THEN 1 ELSE j)

\* numpy's broadcasting rule: dimensions are aligned from the right and two
\* dimensions are compatible when they are equal or one of them is 1.
Compatible(m, n) == m = n \/ m = 1 \/ n = 1
Broadcastable(a, b) == Compatible(Rows(a), Rows(b)) /\ Compatible(Cols(a), Cols(b))

ShapeOf(rank, r, c) == IF rank = 2 THEN <<r, c>> ELSE IF rank = 1 THEN <<c>> ELSE <<>>

\* The scalar operation an element-wise array operation applies.
Apply2(op, x, y) ==
    IF op = "add" THEN Add(x, y)
    ELSE IF op = "sub" THEN Sub(x, y)
    ELSE IF op = "mul" THEN Mul(x, y)
    ELSE Div(x, y)

\* a op b, element-wise with broadcasting.
Elementwise(op, a, b) ==
    IF a.err \/ b.err THEN ValueError
    ELSE IF ~Broadcastable(a, b) THEN ValueError
    ELSE LET r == Max(Rows(a), Rows(b))
             c == Max(Cols(a), Cols(b))
         IN  Arr(ShapeOf(Max(Rank(a), Rank(b)), r, c),
                 [n \in 1..(r * c) |->
                     Apply2(op, BAt(a, ((n - 1) \div c) + 1, ((n - 1) % c) + 1),
                                BAt(b, ((n - 1) \div c) + 1, ((n - 1) % c) + 1))])

\* The scalar function an element-wise array function applies.
Apply1(op, x) ==
    IF op = "neg" THEN Neg(x)
    ELSE IF op = "log" THEN Log(x)
    ELSE Expit(x)

\* op applied to every element.
Map(op, a) ==
    IF a.err THEN ValueError
    ELSE Arr(a.shape, [n \in 1..Len(a.data) |-> Apply1(op, a.data[n])])

RECURSIVE SumSeq(_)
SumSeq(s) == IF s = <<>> THEN Fin(0) ELSE Add(SumSeq(SubSeq(s, 1, Len(s) - 1)), s[Len(s)])

\* np.sum over all elements.
Sum(a) == IF a.err THEN ValueError ELSE Scalar(SumSeq(a.data))

\* a.T: the transpose of a matrix; a vector or scalar is returned as it is.
T(a) ==
    IF a.err THEN ValueError
    ELSE IF Rank(a) < 2 THEN a
    ELSE Arr(<<a.shape[2], a.shape[1]>>,
             [n \in 1..Len(a.data) |->
                 At(a, ((n - 1) % a.shape[1]) + 1, ((n - 1) \div a.shape[1]) + 1)])

\* a.reshape(shape): the same elements in the same order; the size must not
\* change.
Reshape(a, shape) ==
    IF a.err THEN ValueError
    ELSE IF shape[1] * shape[2] # Len(a.data) THEN ValueError
    ELSE Arr(shape, a.data)

\* np.ones(n).
Ones(n) == Arr(<<n>>, [i \in 1..n |-> Fin(ONE)])

\* sum over k of a[i, k] * b[k, j], with a read as r x m and b as m x c.
InnerAt(a, b, m, i, j, bcols) ==
    SumSeq([k \in 1..m |-> Mul(a.data[(i - 1) * m + k], b.data[(k - 1) * bcols + j])])

\* np.dot: a scalar operand multiplies; two vectors give their inner
\* product; a matrix times a vector, a vector times a matrix and a matrix
\* times a matrix contract the last axis of a with the first axis of b,
\* which must have the same size.
Dot(a, b) ==
    IF a.err \/ b.err THEN ValueError
    ELSE IF Rank(a) = 0 \/ Rank(b) = 0 THEN Elementwise("mul", a, b)
    ELSE LET m  == a.shape[Rank(a)]
             r  == IF Rank(a) = 2 THEN a.shape[1] ELSE 1
             c  == IF Rank(b) = 2 THEN b.shape[2] ELSE 1
             shape == IF Rank(a) = 2 /\ Rank(b) = 2 THEN <<r, c>>
                      ELSE IF Rank(a) = 2 THEN <<r>>
                      ELSE IF Rank(b) = 2 THEN <<c>>
                      ELSE <<>>
         IN  IF m # b.shape[1] THEN ValueError
             ELSE Arr(shape,
                      [n \in 1..(r * c) |->
                          InnerAt(a, b, m, ((n - 1) \div c) + 1, ((n - 1) % c) + 1, c)])

\* a -= b.  An ndarray is updated in place, so b must broadcast to the shape
\* of a; a scalar is immutable and the name is rebound to a - b.
ISub(a, b) ==
    LET d == Elementwise("sub", a, b)
    IN  IF d.err THEN ValueError
        ELSE IF Rank(a) > 0 /\ d.shape # a.shape THEN ValueError
        ELSE d


\* ------------------------------------------------------------- the network

\* The keys of the weights dictionary, in insertion order (the order in
\* which `for weight_name in weights` visits them).
Names == <<"W1", "b1", "W2", "b2">>

\* The learning rate.
epsilon == 1

\* scipy.special.expit applied to an array.
sigmoid(a) == Map("expit", a)

\* 1 - a.
OneMinus(a) == Elementwise("sub", Scalar(Fin(ONE)), a)

\* Fault seeded into forward_propagation: the results are returned in the
\* order (Z2, Y, H, Z1).
forward_propagationSwapped(x, W) ==
    LET Z1 == Elementwise("add", Dot(x, T(W.W1)), W.b1)
        H  == sigmoid(Z1)
        Z2 == Elementwise("add", Dot(H, T(W.W2)), W.b2)
        Y  == sigmoid(Z2)
    IN  [Y |-> Z2, Z2 |-> Y, H |-> H, Z1 |-> Z1]

\* forward_propagation(X, weights), W being the arrays the dictionary holds.
forward_propagation(x, W) ==
    LET Z1 == Elementwise("add", Dot(x, T(W.W1)), W.b1)
        H  == sigmoid(Z1)
        Z2 == Elementwise("add", Dot(H, T(W.W2)), W.b2)
        Y  == sigmoid(Z2)
    IN  [Y |-> Y, Z2 |-> Z2, H |-> H, Z1 |-> Z1]

\* X.shape[0].
N_points(x) == x.shape[1]

\* Fault seeded into InvN: the factor 1/N_points is left out (a batch sum
\* instead of a batch mean).
InvNMissing(x) == Scalar(Fin(ONE))

\* 1 / N_points, Python's true division of two ints.
InvN(x) == Scalar(Div(Fin(ONE), Fin(N_points(x) * ONE)))

\* The arrays handed to np.log by the loss.
LogArgs(Y) == <<Y, OneMinus(Y)>>

\* The divisor np.multiply(Y, 1 - Y) of dLdY.
Divisor(Y) == Elementwise("mul", Y, OneMinus(Y))

\* L = (1/N_points) * np.sum(-Y_T * np.log(Y) - (1 - Y_T) * np.log(1 - Y))
CrossEntropy(x, yt, Y) ==
    Elementwise("mul", InvN(x),
        Sum(Elementwise("sub",
                Elementwise("mul", Map("neg", yt), Map("log", LogArgs(Y)[1])),
                Elementwise("mul", OneMinus(yt), Map("log", LogArgs(Y)[2])))))

\* Fault seeded into SigmoidPrime: a * (1 - a) is taken of the
\* pre-activation itself instead of its sigmoid.
SigmoidPrimeOfPreActivation(a) == Elementwise("mul", a, OneMinus(a))

\* sigmoid(a) * (1 - sigmoid(a)).
SigmoidPrime(a) == Elementwise("mul", sigmoid(a), OneMinus(sigmoid(a)))

\* dLdY = 1/N_points * np.divide(Y - Y_T, np.multiply(Y, 1-Y))
dLdY(x, yt, tr) ==
    Elementwise("mul", InvN(x), Elementwise("div", Elementwise("sub", tr.Y, yt), Divisor(tr.Y)))

\* dLdZ2 = np.multiply(dLdY, (sigmoid(Z2)*(1-sigmoid(Z2))))
dLdZ2(x, yt, tr) == Elementwise("mul", dLdY(x, yt, tr), SigmoidPrime(tr.Z2))

\* Fault seeded into Gradients: dLdb2 is dLdZ2 itself, the sum over the
\* batch being left out.
GradientsWithUnsummedBias(x, yt, W, tr) ==
    LET N     == N_points(x)
        dZ2   == dLdZ2(x, yt, tr)
        dLdW2 == Dot(T(tr.H), dZ2)
        dLdb2 == dZ2
        dLdH  == Dot(Reshape(dZ2, <<N, 1>>), Reshape(W.W2, <<1, 3>>))
        dLdZ1 == Elementwise("mul", dLdH, SigmoidPrime(tr.Z1))
        dLdW1 == Dot(T(dLdZ1), x)
        dLdb1 == Dot(T(dLdZ1), Ones(N))
    IN  [W1 |-> dLdW1, b1 |-> dLdb1, W2 |-> dLdW2, b2 |-> dLdb2]

\* Fault seeded into Gradients: dLdZ1 is taken to be dLdH, the derivative
\* of the hidden sigmoid being left out.
GradientsWithoutHiddenDerivative(x, yt, W, tr) ==
    LET N     == N_points(x)
        dZ2   == dLdZ2(x, yt, tr)
        dLdW2 == Dot(T(tr.H), dZ2)
        dLdb2 == Dot(T(dZ2), Ones(N))
        dLdH  == Dot(Reshape(dZ2, <<N, 1>>), Reshape(W.W2, <<1, 3>>))
        dLdZ1 == dLdH
        dLdW1 == Dot(T(dLdZ1), x)
        dLdb1 == Dot(T(dLdZ1), Ones(N))
    IN  [W1 |-> dLdW1, b1 |-> dLdb1, W2 |-> dLdW2, b2 |-> dLdb2]

\* The backward half of back_propagation: the gradients dictionary computed
\* from the trace tr = (Y, Z2, H, Z1) of the forward call.
Gradients(x, yt, W, tr) ==
    LET N     == N_points(x)
        dZ2   == dLdZ2(x, yt, tr)
        dLdW2 == Dot(T(tr.H), dZ2)
        dLdb2 == Dot(T(dZ2), Ones(N))
        dLdH  == Dot(Reshape(dZ2, <<N, 1>>), Reshape(W.W2, <<1, 3>>))
        dLdZ1 == Elementwise("mul", dLdH, SigmoidPrime(tr.Z1))
        dLdW1 == Dot(T(dLdZ1), x)
        dLdb1 == Dot(T(dLdZ1), Ones(N))
    IN  [W1 |-> dLdW1, b1 |-> dLdb1, W2 |-> dLdW2, b2 |-> dLdb2]

\* A statement raised: one of the values it computed is a ValueError.
Raised(rec) == \E f \in DOMAIN rec : rec[f].err

\* weights[weight_name] - epsilon * gradients[weight_name], as `-=` computes
\* it.
Updated(w, g) == ISub(w, Elementwise("mul", Scalar(Fin(epsilon * ONE)), g))


\* ------------------------------------------------------------------- state

VARIABLES
    X,                \* the input batch
    Y_T,              \* the labels (the notebook's global Y)
    heap,             \* the objects allocated so far, by reference
    weights,          \* the weights dictionary: name -> reference
    initial_weights,  \* the dictionary copy.deepcopy returned (0: unbound)
    epochs,           \* the epoch count E
    epoch,            \* how many values the range(epochs) iterator has yielded
    losses,           \* the training history
    trace,            \* (Y, Z2, H, Z1) as returned by forward_propagation
    L,                \* the loss computed by back_propagation
    gradients,        \* the gradients dictionary
    todo,             \* the names `for weight_name in weights` has yet to visit
    pc,               \* the statement that runs next
    caller,           \* "train", or the function called on its own: "fp", "bp"
    nForward,         \* history: invocations of forward_propagation so far
    start,            \* history: the parameter values at the start of the iteration
    copied            \* history: the parameter values when the copy was taken

vars == <<X, Y_T, heap, weights, initial_weights, epochs, epoch, losses, trace, L,
          gradients, todo, pc, caller, nForward, start, copied>>

\* The arrays a dictionary's names are bound to.
Deref(d) == [n \in DOMAIN d |-> heap[d[n]]]

Vec(s) == Arr(<<Len(s)>>, [i \in 1..Len(s) |-> Fin(s[i])])
Mat(r, c, s) == Arr(<<r, c>>, [i \in 1..(r * c) |-> Fin(s[i])])

NoTrace == [Y |-> None, Z2 |-> None, H |-> None, Z1 |-> None]
NoGradients == [W1 |-> None, b1 |-> None, W2 |-> None, b2 |-> None]
Unbound == [W1 |-> 0, b1 |-> 0, W2 |-> 0, b2 |-> 0]

\* Data points (x1, x2) a generated dataset is made of.
Points == {<<ONE, 0>>, <<ONE \div 2, 0 - ONE>>}

\* generate_dataset: N points with their classes, N = 1 .. MaxN.
Datasets ==
    UNION {{[X |-> Mat(n, 2, [i \in 1..(2 * n) |-> rows[((i - 1) \div 2) + 1][((i - 1) % 2) + 1]]),
             Y |-> Arr(<<n>>, [i \in 1..n |-> Fin(labels[i])])] :
            rows \in [1..n -> Points], labels \in [1..n -> {0, ONE}]} : n \in 1..MaxN}

\* Values of the weights cell: W1 = randn(3, 2), b1 = zeros(3), W2 = randn(3),
\* b2 = 0, including draws that are all zero and draws that saturate the
\* output unit.
InitialWeights ==
    {[W1 |-> Mat(3, 2, w1), b1 |-> Vec(<<0, 0, 0>>), W2 |-> Vec(w2), b2 |-> Scalar(Fin(0))] :
        <<w1, w2>> \in {<<<<0, 0, 0, 0, 0, 0>>, <<0, 0, 0>>>>,
                        <<<<16, -16, 8, 24, -32, 16>>, <<16, -24, 32>>>>,
                        <<<<4, 0, -8, 12, 0, 0>>, <<480, 480, 480>>>>}}

\* The state once the dataset and the weights cells have run.
Init ==
    /\ \E d \in Datasets : X = d.X /\ Y_T = d.Y
    /\ \E w \in InitialWeights : heap = <<w.W1, w.b1, w.W2, w.b2>>
    /\ weights = [W1 |-> 1, b1 |-> 2, W2 |-> 3, b2 |-> 4]
    /\ initial_weights = Unbound
    /\ epochs \in 0..MaxEpochs
    /\ epoch = 0
    /\ losses = <<>>
    /\ trace = NoTrace
    /\ L = None
    /\ gradients = NoGradients
    /\ todo = <<>>
    /\ pc = "idle"
    /\ caller = "train"
    /\ nForward = 0
    /\ start = Deref(weights)
    /\ copied = Deref(weights)

\* Fault seeded into DeepCopy: copy.copy(weights), a new dictionary bound to
\* the same objects.
ShallowCopy(d, h) == [dict |-> d, heap |-> h]

\* copy.deepcopy(weights): a new dictionary bound to new objects holding the
\* same values.  Returns the dictionary and the heap with the new objects.
DeepCopy(d, h) ==
    [dict |-> [n \in DOMAIN d |-> Len(h) + (CHOOSE i \in 1..Len(Names) : Names[i] = n)],
     heap |-> h \o [i \in 1..Len(Names) |-> h[d[Names[i]]]]]

\* epochs = ...; epsilon = 1; initial_weights = copy.deepcopy(weights);
\* losses = []
Setup ==
    /\ pc = "idle"
    /\ LET c == DeepCopy(weights, heap)
       IN  /\ initial_weights' = c.dict
           /\ heap' = c.heap
    /\ copied' = Deref(weights)
    /\ losses' = <<>>
    /\ pc' = "loop"
    /\ UNCHANGED <<X, Y_T, weights, epochs, epoch, trace, L, gradients, todo, caller,
                   nForward, start>>

\* Fault seeded into LoopContinues: the loop also stops once the last loss
\* is not a finite number.
LoopContinuesWhileFinite ==
    /\ epoch < epochs
    /\ (losses = <<>> \/ IsFin(losses[Len(losses)].data[1]))

\* for epoch in range(epochs): the loop runs its body while the iterator has
\* a value left.
LoopContinues == epoch < epochs

LoopHead ==
    /\ pc = "loop"
    /\ IF LoopContinues
       THEN /\ epoch' = epoch + 1
            /\ start' = Deref(weights)
            /\ pc' = "forward"
       ELSE /\ pc' = "done"
            /\ UNCHANGED <<epoch, start>>
    /\ UNCHANGED <<X, Y_T, heap, weights, initial_weights, epochs, losses, trace, L,
                   gradients, todo, caller, nForward, copied>>

\* Fault seeded into Forward: W1 is transposed in place instead of through
\* the view W1.T.
ForwardTransposingInPlace ==
    /\ pc = "forward"
    /\ nForward' = nForward + 1
    /\ heap' = [heap EXCEPT ![weights.W1] = T(heap[weights.W1])]
    /\ LET r == forward_propagation(X, Deref(weights))
       IN  IF Raised(r)
           THEN pc' = "raised" /\ UNCHANGED trace
           ELSE /\ trace' = r
                /\ pc' = IF caller = "fp" THEN "returned" ELSE "loss"
    /\ UNCHANGED <<X, Y_T, weights, initial_weights, epochs, epoch, losses, L,
                   gradients, todo, caller, start, copied>>

\* Y, Z2, H, Z1 = forward_propagation(X, weights)
Forward ==
    /\ pc = "forward"
    /\ nForward' = nForward + 1
    /\ LET r == forward_propagation(X, Deref(weights))
       IN  IF Raised(r)
           THEN pc' = "raised" /\ UNCHANGED trace
           ELSE /\ trace' = r
                /\ pc' = IF caller = "fp" THEN "returned" ELSE "loss"
    /\ UNCHANGED <<X, Y_T, heap, weights, initial_weights, epochs, epoch, losses, L,
                   gradients, todo, caller, start, copied>>

\* L = (1/N_points) * np.sum(...)
Loss ==
    /\ pc = "loss"
    /\ LET l == CrossEntropy(X, Y_T, trace.Y)
       IN  IF l.err
           THEN pc' = "raised" /\ UNCHANGED L
           ELSE L' = l /\ pc' = "backward"
    /\ UNCHANGED <<X, Y_T, heap, weights, initial_weights, epochs, epoch, losses, trace,
                   gradients, todo, caller, nForward, start, copied>>

\* Fault seeded into Backward: the backward half evaluates the network again
\* instead of using the trace it was given.
BackwardReinvoking ==
    /\ pc = "backward"
    /\ nForward' = nForward + 1
    /\ LET g == Gradients(X, Y_T, Deref(weights), forward_propagation(X, Deref(weights)))
       IN  IF Raised(g)
           THEN pc' = "raised" /\ UNCHANGED <<gradients, todo>>
           ELSE /\ gradients' = g
                /\ IF caller = "train"
                   THEN pc' = "update" /\ todo' = Names
                   ELSE pc' = "returned" /\ UNCHANGED todo
    /\ UNCHANGED <<X, Y_T, heap, weights, initial_weights, epochs, epoch, losses, trace, L,
                   caller, start, copied>>

\* dLdY = ...; ...; dLdb1 = ...; return gradients, L
Backward ==
    /\ pc = "backward"
    /\ LET g == Gradients(X, Y_T, Deref(weights), trace)
       IN  IF Raised(g)
           THEN pc' = "raised" /\ UNCHANGED <<gradients, todo>>
           ELSE /\ gradients' = g
                /\ IF caller = "train"
                   THEN pc' = "update" /\ todo' = Names
                   ELSE pc' = "returned" /\ UNCHANGED todo
    /\ UNCHANGED <<X, Y_T, heap, weights, initial_weights, epochs, epoch, losses, trace, L,
                   caller, nForward, start, copied>>

\* The heap and the dictionary after d[name] -= ... gave the value v: an
\* ndarray (one dimension or more) is changed in place, a scalar is a new
\* object the name is rebound to.
Store(d, h, name, v) ==
    IF Rank(h[d[name]]) > 0
    THEN [dict |-> d, heap |-> [h EXCEPT ![d[name]] = v]]
    ELSE [dict |-> [d EXCEPT ![name] = Len(h) + 1], heap |-> Append(h, v)]

\* Fault seeded into Update: the loop over the names is left after its first
\* pass (a stray break), so the loss is appended with parameters still to
\* update.
UpdateBreaking ==
    /\ pc = "update"
    /\ todo # <<>>
    /\ LET name == Head(todo)
           v    == Updated(heap[weights[name]], gradients[name])
           s    == Store(weights, heap, name, v)
       IN  IF v.err
           THEN pc' = "raised" /\ UNCHANGED <<heap, weights, todo>>
           ELSE /\ heap' = s.heap
                /\ weights' = s.dict
                /\ todo' = Tail(todo)
                /\ pc' = "append"
    /\ UNCHANGED <<X, Y_T, initial_weights, epochs, epoch, losses, trace, L, gradients,
                   caller, nForward, start, copied>>

\* Fault seeded into Update: the step size is drawn at random for every
\* update instead of being the fixed epsilon.
UpdateStochastic ==
    /\ pc = "update"
    /\ todo # <<>>
    /\ \E e \in {epsilon, 2 * epsilon} :
          LET name == Head(todo)
              v    == ISub(heap[weights[name]],
                           Elementwise("mul", Scalar(Fin(e * ONE)), gradients[name]))
              s    == Store(weights, heap, name, v)
          IN  IF v.err
              THEN pc' = "raised" /\ UNCHANGED <<heap, weights, todo>>
              ELSE /\ heap' = s.heap
                   /\ weights' = s.dict
                   /\ todo' = Tail(todo)
                   /\ pc' = IF Tail(todo) = <<>> THEN "append" ELSE "update"
    /\ UNCHANGED <<X, Y_T, initial_weights, epochs, epoch, losses, trace, L, gradients,
                   caller, nForward, start, copied>>

\* Fault seeded into Update: the gradient of each parameter is evaluated
\* when that parameter is updated, after the parameters before it changed.
UpdateRecomputing ==
    /\ pc = "update"
    /\ todo # <<>>
    /\ LET name == Head(todo)
           W    == Deref(weights)
           g    == Gradients(X, Y_T, W, forward_propagation(X, W))
           v    == Updated(heap[weights[name]], g[name])
           s    == Store(weights, heap, name, v)
       IN  IF v.err
           THEN pc' = "raised" /\ UNCHANGED <<heap, weights, todo>>
           ELSE /\ heap' = s.heap
                /\ weights' = s.dict
                /\ todo' = Tail(todo)
                /\ pc' = IF Tail(todo) = <<>> THEN "append" ELSE "update"
    /\ UNCHANGED <<X, Y_T, initial_weights, epochs, epoch, losses, trace, L, gradients,
                   caller, nForward, start, copied>>

\* weights[weight_name] -= epsilon * gradients[weight_name], for the next
\* name of the dictionary.
Update ==
    /\ pc = "update"
    /\ todo # <<>>
    /\ LET name == Head(todo)
           v    == Updated(heap[weights[name]], gradients[name])
           s    == Store(weights, heap, name, v)
       IN  IF v.err
           THEN pc' = "raised" /\ UNCHANGED <<heap, weights, todo>>
           ELSE /\ heap' = s.heap
                /\ weights' = s.dict
                /\ todo' = Tail(todo)
                /\ pc' = IF Tail(todo) = <<>> THEN "append" ELSE "update"
    /\ UNCHANGED <<X, Y_T, initial_weights, epochs, epoch, losses, trace, L, gradients,
                   caller, nForward, start, copied>>

\* Fault seeded into AppendLoss: the loss appended is evaluated once more,
\* on the parameters the iteration has just updated.
AppendLossAfterUpdate ==
    /\ pc = "append"
    /\ losses' = Append(losses, CrossEntropy(X, Y_T, forward_propagation(X, Deref(weights)).Y))
    /\ pc' = "loop"
    /\ UNCHANGED <<X, Y_T, heap, weights, initial_weights, epochs, epoch, trace, L,
                   gradients, todo, caller, nForward, start, copied>>

\* Fault seeded into AppendLoss: losses = [L], the history keeps the last
\* loss only.
AppendLossOverwriting ==
    /\ pc = "append"
    /\ losses' = <<L>>
    /\ pc' = "loop"
    /\ UNCHANGED <<X, Y_T, heap, weights, initial_weights, epochs, epoch, trace, L,
                   gradients, todo, caller, nForward, start, copied>>

\* losses.append(L)
AppendLoss ==
    /\ pc = "append"
    /\ losses' = Append(losses, L)
    /\ pc' = "loop"
    /\ UNCHANGED <<X, Y_T, heap, weights, initial_weights, epochs, epoch, trace, L,
                   gradients, todo, caller, nForward, start, copied>>

Next == Setup \/ LoopHead \/ Forward \/ Loss \/ Backward \/ Update \/ AppendLoss

Spec == Init /\ [][Next]_vars
\* --------------------------------------------------------- direct calls

\* Element values of the arguments of a direct call: 0, 1, -0.5, 0.5, -1, ...
Fill(n) == [i \in 1..n |-> Fin((((i * 7) % 5) - 2) * (ONE \div 2))]

\* Parameter sets of every shape: W1 is h x d, b1 has length k, W2 has m
\* elements, as a vector or as a 1 x m matrix, b2 is a scalar.
CallWeights ==
    {[W1 |-> Arr(<<h, d>>, Fill(h * d)),
      b1 |-> Arr(<<k>>, Fill(k)),
      W2 |-> Arr(IF row THEN <<1, m>> ELSE <<m>>, Fill(m)),
      b2 |-> Scalar(Fin(0))] :
        h \in 1..MaxH, d \in 1..MaxD, k \in 1..MaxH, m \in 1..MaxH, row \in BOOLEAN}

\* Batches of N points with d features, and their N labels.
CallBatches ==
    {[X |-> Arr(<<n, d>>, Fill(n * d)),
      Y |-> Arr(<<n>>, [i \in 1..n |-> Fin((i % 2) * ONE)])] : n \in 1..MaxN, d \in 1..MaxD}

\* forward_propagation(X, weights) ("fp") or back_propagation(X, Y_T, weights)
\* ("bp") is about to be called on arguments of any shape.
InitCall ==
    /\ \E b \in CallBatches : X = b.X /\ Y_T = b.Y
    /\ \E w \in CallWeights : heap = <<w.W1, w.b1, w.W2, w.b2>>
    /\ weights = [W1 |-> 1, b1 |-> 2, W2 |-> 3, b2 |-> 4]
    /\ initial_weights = Unbound
    /\ epochs = 0
    /\ epoch = 0
    /\ losses = <<>>
    /\ trace = NoTrace
    /\ L = None
    /\ gradients = NoGradients
    /\ todo = <<>>
    /\ pc = "forward"
    /\ caller \in {"fp", "bp"}
    /\ nForward = 0
    /\ start = Deref(weights)
    /\ copied = Deref(weights)

NextCall == Forward \/ Loss \/ Backward

SpecCall == InitCall /\ [][NextCall]_vars

\* ------------------------------------------------------- repeated batches

\* Examples (x1, x2) a repeated batch is made of.
Examples == Points \cup {<<0 - ONE, ONE \div 2>>}

\* Batches made of N copies of one example (x, y_T): the single-example
\* batch (N = 1) and the batch of N = MaxBatch copies.
RepeatedBatches ==
    {[X |-> Mat(n, 2, [i \in 1..(2 * n) |-> p[((i - 1) % 2) + 1]]),
      Y |-> Arr(<<n>>, [i \in 1..n |-> Fin(label)])] :
        p \in Examples, label \in {0, ONE}, n \in {1, MaxBatch}}

\* back_propagation(X, Y_T, weights) is about to be called on a repeated
\* batch and the weights of the weights cell.
InitBatch ==
    /\ \E b \in RepeatedBatches : X = b.X /\ Y_T = b.Y
    /\ \E w \in InitialWeights : heap = <<w.W1, w.b1, w.W2, w.b2>>
    /\ weights = [W1 |-> 1, b1 |-> 2, W2 |-> 3, b2 |-> 4]
    /\ initial_weights = Unbound
    /\ epochs = 0
    /\ epoch = 0
    /\ losses = <<>>
    /\ trace = NoTrace
    /\ L = None
    /\ gradients = NoGradients
    /\ todo = <<>>
    /\ pc = "forward"
    /\ caller = "bp"
    /\ nForward = 0
    /\ start = Deref(weights)
    /\ copied = Deref(weights)

SpecBatch == InitBatch /\ [][NextCall]_vars

\* ------------------------------------------------------------------ claims

\* Every element of the array is a finite number.
AllFinite(a) == \A i \in 1..Len(a.data) : IsFin(a.data[i])

\* The array has an element equal to zero.
HasZero(a) == \E i \in 1..Len(a.data) : a.data[i] = Fin(0)

\* P - eps * dL/dP, element by element, for a gradient of the shape of P.
Descent(P, g) ==
    Arr(P.shape, [i \in 1..Len(P.data) |-> Sub(P.data[i], Mul(Fin(epsilon * ONE), g.data[i]))])

\* The gradients at the parameter values the iteration started with.
StartGradients == Gradients(X, Y_T, start, forward_propagation(X, start))

\* How many names the update loop of this iteration has visited.
Visited == Len(Names) - Len(todo)

\* C1: while and after the four parameters are updated, every parameter the
\* update loop has visited holds P - epsilon * dL/dP, P and dL/dP being the
\* value and the gradient at the start of the iteration, and every parameter
\* not visited yet still holds P.
C1_UpdateRule ==
    pc \in {"update", "append"} =>
        \A i \in 1..Len(Names) :
            heap[weights[Names[i]]] =
                IF i <= Visited
                THEN Descent(start[Names[i]], StartGradients[Names[i]])
                ELSE start[Names[i]]

\* A descent step with finite, non-zero gradients has been applied to all
\* four parameters.
C1_Witness ==
    /\ pc = "append"
    /\ epoch >= 2
    /\ \A i \in 1..Len(Names) :
          /\ AllFinite(heap[weights[Names[i]]])
          /\ heap[weights[Names[i]]] # start[Names[i]]

\* A statement of the training cell is ready to run: the guard of one of the
\* actions holds.
Running ==
    /\ pc \in {"idle", "loop", "forward", "loss", "backward", "update", "append"}
    /\ pc = "update" => todo # <<>>

\* C2: a run ends after exactly E iterations: in every state but the final
\* one a statement is ready to run (nothing raised, nothing stuck), no more
\* than E iterations are ever started, and in the final state E iterations
\* were started, E forward passes were made and E losses were recorded.
C2_ExactlyEIterations ==
    /\ pc # "done" => Running
    /\ epoch <= epochs
    /\ pc = "done" => epoch = epochs /\ nForward = epochs /\ Len(losses) = epochs

\* A run ended although its loss went up, or stopped being a number, on the
\* way.
C2_Witness ==
    /\ pc = "done"
    /\ epochs >= 2
    /\ \/ ~IsFin(losses[1].data[1])
       \/ /\ IsFin(losses[2].data[1])
          /\ losses[2].data[1].v >= losses[1].data[1].v

\* s is an initial segment of t.
IsPrefix(s, t) == Len(s) <= Len(t) /\ \A i \in 1..Len(s) : s[i] = t[i]

\* C3: the history holds one scalar per completed iteration (as many as the
\* loop has started, less the one in progress), E of them after the run, and
\* a step only ever appends one entry to it.
C3_HistoryAppendOnly ==
    /\ [](/\ Len(losses) = (IF pc \in {"idle", "loop", "done"} THEN epoch ELSE epoch - 1)
          /\ \A i \in 1..Len(losses) : Rank(losses[i]) = 0 /\ ~losses[i].err
          /\ pc = "done" => Len(losses) = epochs)
    /\ [][IsPrefix(losses, losses') /\ Len(losses') <= Len(losses) + 1]_vars

\* A run of two iterations or more has ended, with its losses recorded.
C3_Witness == pc = "done" /\ Len(losses) >= 2 /\ losses[1] # losses[2]

\* C4: forward_propagation has been invoked once per iteration started (the
\* invocation of the current iteration is still to come while pc is
\* "forward"), and the gradients in use are those the backward half derives
\* from the trace of that single invocation.
C4_OneForwardPerIteration ==
    /\ nForward = (IF pc = "forward" THEN epoch - 1 ELSE epoch)
    /\ pc \in {"loss", "backward", "update", "append"} => trace = forward_propagation(X, start)
    /\ pc \in {"update", "append"} => gradients = Gradients(X, Y_T, start, trace)

\* Gradients have been computed in a second or later iteration.
C4_Witness == pc = "update" /\ epoch >= 2 /\ gradients # NoGradients

\* C5: a call of forward_propagation leaves the weights dictionary, every
\* object it refers to and X as they were, whether it returns or raises.
C5_ForwardIsPure ==
    [][pc = "forward" => (heap' = heap /\ weights' = weights /\ X' = X)]_vars

\* forward_propagation was called on its own and has returned its trace.
C5_Witness == pc = "returned" /\ caller = "fp" /\ nForward = 1 /\ trace # NoTrace

\* C6: once taken, the copy of the initial parameters keeps the values it was
\* taken with.
C6_CopyIndependent ==
    pc # "idle" => \A i \in 1..Len(Names) : heap[initial_weights[Names[i]]] = copied[Names[i]]

\* The run has ended with all four live parameters changed and the copy
\* still taken.
C6_Witness ==
    /\ pc = "done"
    /\ \A i \in 1..Len(Names) : heap[weights[Names[i]]] # copied[Names[i]]

\* The data model's consistency of shapes: W1 is h x d_in, d_in being the
\* number of columns of X, b1 has length h, W2 has h elements as a vector
\* (or, if row is allowed, as a 1 x h matrix) and b2 is a scalar.
Consistent(x, W, rowAllowed) ==
    /\ Rank(x) = 2 /\ Rank(W.W1) = 2
    /\ W.W1.shape[2] = x.shape[2]
    /\ W.b1.shape = <<W.W1.shape[1]>>
    /\ \/ W.W2.shape = <<W.W1.shape[1]>>
       \/ rowAllowed /\ W.W2.shape = <<1, W.W1.shape[1]>>
    /\ Rank(W.b2) = 0

\* C7: a call on mutually inconsistent shapes raises in the forward pass: it
\* never gets past it.
C7_InconsistentShapesRaise ==
    ~Consistent(X, Deref(weights), TRUE) => pc \in {"forward", "raised"}

\* C8: no prediction handed to the logarithms of the loss (Y and 1 - Y) and
\* no divisor of dL/dY (Y * (1 - Y)) is zero.
C8_NoLogOrDivisionOfZero ==
    pc \in {"loss", "backward"} =>
        /\ ~HasZero(LogArgs(trace.Y)[1])
        /\ ~HasZero(LogArgs(trace.Y)[2])
        /\ ~HasZero(Divisor(trace.Y))

\* C9: back_propagation called on shapes that are consistent for some hidden
\* width h, W2 being a vector, returns gradients of the shapes of their
\* parameters.
C9_GradientShapes ==
    (caller = "bp" /\ pc \in {"returned", "raised"} /\ Consistent(X, Deref(weights), FALSE)) =>
        /\ pc = "returned"
        /\ \A i \in 1..Len(Names) : gradients[Names[i]].shape = heap[weights[Names[i]]].shape

\* C10: forward_propagation called on a valid X (N x d_in) and a valid
\* parameter set, W2 being a vector of length h or a 1 x h matrix, returns Y
\* and Z2 of length N and H and Z1 of shape N x h.
C10_ForwardShapes ==
    (caller = "fp" /\ pc \in {"returned", "raised"} /\ Consistent(X, Deref(weights), TRUE)) =>
        /\ pc = "returned"
        /\ trace.Y.shape = <<X.shape[1]>>
        /\ trace.Z2.shape = <<X.shape[1]>>
        /\ trace.H.shape = <<X.shape[1], heap[weights.W1].shape[1]>>
        /\ trace.Z1.shape = <<X.shape[1], heap[weights.W1].shape[1]>>

\* sum_i X[n][i] * W1[j][i] + b1[j], from the elements of the arguments.
Z1At(x, W, n, j) ==
    Add(SumSeq([i \in 1..x.shape[2] |->
                   Mul(x.data[(n - 1) * x.shape[2] + i], W.W1.data[(j - 1) * x.shape[2] + i])]),
        W.b1.data[j])

\* sum_j H[n][j] * W2[j] + b2, from the elements of H and of the arguments.
Z2At(Hid, W, n) ==
    Add(SumSeq([j \in 1..Len(W.W2.data) |->
                   Mul(Hid.data[(n - 1) * Len(W.W2.data) + j], W.W2.data[j])]),
        W.b2.data[1])

\* C11: the trace forward_propagation returned on a consistent call (W2 a
\* vector) holds, in the positions Y, Z2, H, Z1 of the result, for every
\* example n and hidden unit j: Z1[n][j] = sum_i X[n][i]*W1[j][i] + b1[j],
\* H[n][j] = sigmoid(Z1[n][j]), Z2[n] = sum_j H[n][j]*W2[j] + b2 and
\* Y[n] = sigmoid(Z2[n]).
C11_ForwardValues ==
    (trace # NoTrace /\ Consistent(X, Deref(weights), FALSE)) =>
        LET W == Deref(weights)
            h == W.W1.shape[1]
        IN  \A n \in 1..X.shape[1] :
                /\ \A j \in 1..h :
                      /\ trace.Z1.data[(n - 1) * h + j] = Z1At(X, W, n, j)
                      /\ trace.H.data[(n - 1) * h + j] = Expit(trace.Z1.data[(n - 1) * h + j])
                /\ trace.Z2.data[n] = Z2At(trace.H, W, n)
                /\ trace.Y.data[n] = Expit(trace.Z2.data[n])

\* forward_propagation returned on a batch of two examples and a network of
\* two inputs and several hidden units, with Z2 different from Y.
C11_Witness ==
    /\ caller = "fp" /\ pc = "returned"
    /\ Consistent(X, Deref(weights), FALSE)
    /\ X.shape = <<2, 2>>
    /\ heap[weights.W1].shape[1] >= 2
    /\ trace.Z2 # trace.Y
    /\ trace.Z1.data[1] # trace.Z1.data[2]

\* The final parameters and the loss history as a function of the inputs of
\* a run alone: E times, the loss and the gradients at the current
\* parameters, then the descent step on all four parameters.
RECURSIVE Trained(_, _, _, _)
Trained(x, yt, W, E) ==
    IF E = 0 THEN [weights |-> W, losses |-> <<>>]
    ELSE LET prev == Trained(x, yt, W, E - 1)
             P    == prev.weights
             tr   == forward_propagation(x, P)
             g    == Gradients(x, yt, P, tr)
         IN  [weights |-> [n \in DOMAIN P |-> Descent(P[n], g[n])],
              losses  |-> Append(prev.losses, CrossEntropy(x, yt, tr.Y))]

\* C12: the loss history and the final parameters of a run are determined
\* by (X, Y_T, initial parameters, epochs, learning rate): they are the
\* values of one function of these inputs, so two runs started from equal
\* inputs end with identical histories and identical parameters.
C12_Deterministic ==
    pc = "done" =>
        /\ losses = Trained(X, Y_T, copied, epochs).losses
        /\ Deref(weights) = Trained(X, Y_T, copied, epochs).weights

\* A run of two iterations on a batch of two examples has ended with finite
\* parameters that differ from the initial ones.
C12_Witness ==
    /\ pc = "done" /\ epochs >= 2 /\ X.shape[1] = 2
    /\ Deref(weights) # copied
    /\ \A i \in 1..Len(Names) : AllFinite(heap[weights[Names[i]]])

\* The first example of the batch as a batch of its own, and its label.
X1 == Arr(<<1, X.shape[2]>>, SubSeq(X.data, 1, X.shape[2]))
Y1 == Arr(<<1>>, SubSeq(Y_T.data, 1, 1))

\* What back_propagation returns on the single-example batch.
L1 == CrossEntropy(X1, Y1, forward_propagation(X1, Deref(weights)).Y)
G1 == Gradients(X1, Y1, Deref(weights), forward_propagation(X1, Deref(weights)))

\* a and b have the same shape and agree element by element: to within tol
\* units in the last place where both are finite, in kind (inf, -inf, nan)
\* where they are not.
Close(a, b, tol) ==
    /\ a.shape = b.shape
    /\ \A i \in 1..Len(a.data) :
          IF IsFin(a.data[i]) /\ IsFin(b.data[i])
          THEN Abs(a.data[i].v - b.data[i].v) <= tol
          ELSE a.data[i] = b.data[i]

\* C13 (as stated): back_propagation on N copies of one example returns the
\* same loss and the same gradient of W1, b1, W2 and b2 as on the
\* single-example batch.
C13_BatchSizeInvariant ==
    pc = "returned" =>
        /\ L = L1
        /\ \A i \in 1..Len(Names) : gradients[Names[i]] = G1[Names[i]]

\* C13 (amended): back_propagation on N copies of one example returns the
\* loss and the gradients of the single-example batch up to rounding: every
\* value agrees with the single-example one to within N units in the last
\* place, and non-finite values agree in kind.
C13_BatchSizeInvariantUpToRounding ==
    pc = "returned" =>
        /\ Close(L, L1, N_points(X))
        /\ \A i \in 1..Len(Names) : Close(gradients[Names[i]], G1[Names[i]], N_points(X))

\* back_propagation returned finite gradients on three copies of an example,
\* and the loss differs from the single-example loss in the last place.
C13_Witness ==
    /\ pc = "returned" /\ N_points(X) = 3
    /\ \A i \in 1..Len(Names) : AllFinite(gradients[Names[i]])
    /\ gradients.W2 # NoGradients.W2
    /\ L # L1

\* The all-zero parameter set: W1 = zeros(3, 2), b1 = zeros(3),
\* W2 = zeros(3), b2 = 0.
ZeroWeights ==
    [W1 |-> Mat(3, 2, <<0, 0, 0, 0, 0, 0>>), b1 |-> Vec(<<0, 0, 0>>),
     W2 |-> Vec(<<0, 0, 0>>), b2 |-> Scalar(Fin(0))]

\* back_propagation is at work on X = [[1, 0]], Y_T = [1] and the all-zero
\* parameters, past its forward pass.
Scenario ==
    /\ X = Mat(1, 2, <<ONE, 0>>)
    /\ Y_T = Vec(<<ONE>>)
    /\ start = ZeroWeights
    /\ pc \in {"loss", "backward", "update", "append"}

\* C14: on X = [[1, 0]], Y_T = [1] and all-zero parameters the forward pass
\* yields Z1 = [0, 0, 0], H = [0.5, 0.5, 0.5], Z2 = 0 and Y = 0.5, and the
\* backward pass computes exactly dL/dY = -2, sigmoid'(Z2) = 0.25 and
\* dL/dZ2 = -0.5.
C14_ConcreteScenario ==
    Scenario =>
        /\ trace.Z1.data = <<Fin(0), Fin(0), Fin(0)>>
        /\ trace.H.data = <<Fin(ONE \div 2), Fin(ONE \div 2), Fin(ONE \div 2)>>
        /\ trace.Z2.data = <<Fin(0)>>
        /\ trace.Y.data = <<Fin(ONE \div 2)>>
        /\ dLdY(X, Y_T, trace).data = <<Fin(0 - 2 * ONE)>>
        /\ SigmoidPrime(trace.Z2).data = <<Fin(ONE \div 4)>>
        /\ dLdZ2(X, Y_T, trace).data = <<Fin(0 - (ONE \div 2))>>

\* The backward half is about to run in the scenario.
C14_Witness == Scenario /\ pc = "backward" /\ epoch = 1

\* sigmoid'(z) = sigmoid(z) * (1 - sigmoid(z)) of one number.
SigmoidPrimeAt(z) == Mul(Expit(z), Sub(Fin(ONE), Expit(z)))

\* dL/dZ1[n][j] = dL/dZ2[n] * W2[j] * sigmoid'(Z1[n][j]), from the elements
\* of dL/dZ2, of W2 and of the trace.
dLdZ1At(dz2, W, tr, n, j) ==
    Mul(Mul(dz2.data[n], W.W2.data[j]),
        SigmoidPrimeAt(tr.Z1.data[(n - 1) * Len(W.W2.data) + j]))

\* C16: the gradients back_propagation returned are, dL/dZ2[n] being
\* dL/dY[n] * sigmoid'(Z2[n]): dL/dW2[j] = sum_n H[n][j] * dL/dZ2[n],
\* dL/db2 = sum_n dL/dZ2[n], dL/dW1[j][i] = sum_n dL/dZ1[n][j] * X[n][i] and
\* dL/db1[j] = sum_n dL/dZ1[n][j], with dL/dZ1[n][j] = dL/dZ2[n] * W2[j] *
\* sigmoid'(Z1[n][j]) and the sums over all N examples of the batch.
C16_GradientSums ==
    pc \in {"update", "append"} =>
        LET N   == X.shape[1]
            d   == X.shape[2]
            h   == Len(start.W2.data)
            dy  == dLdY(X, Y_T, trace)
            dz2 == dLdZ2(X, Y_T, trace)
        IN  /\ \A n \in 1..N :
                  dz2.data[n] = Mul(dy.data[n], SigmoidPrimeAt(trace.Z2.data[n]))
            /\ gradients.b2.data = <<SumSeq([n \in 1..N |-> dz2.data[n]])>>
            /\ \A j \in 1..h :
                  /\ gradients.W2.data[j] =
                         SumSeq([n \in 1..N |-> Mul(trace.H.data[(n - 1) * h + j], dz2.data[n])])
                  /\ gradients.b1.data[j] =
                         SumSeq([n \in 1..N |-> dLdZ1At(dz2, start, trace, n, j)])
                  /\ \A i \in 1..d :
                         gradients.W1.data[(j - 1) * d + i] =
                             SumSeq([n \in 1..N |->
                                        Mul(dLdZ1At(dz2, start, trace, n, j), X.data[(n - 1) * d + i])])

\* Gradients were returned on a batch of two different examples, finite and
\* not all zero for W1.
C16_Witness ==
    /\ pc = "update" /\ todo = Names
    /\ X.shape[1] = 2
    /\ SubSeq(X.data, 1, 2) # SubSeq(X.data, 3, 4)
    /\ AllFinite(gradients.W1)
    /\ \E i \in 1..Len(gradients.W1.data) : gradients.W1.data[i] # Fin(0)

\* One step of the training cell respects the order of an iteration: the
\* loop head starts the forward pass of a new iteration (or ends the run),
\* the forward pass is followed by the loss, the loss by the backward pass,
\* the backward pass by the update of the four parameters, one name of the
\* dictionary after the other, the last update by the append, and the append
\* by the loop head; only the loop head starts an iteration.
InOrder ==
    /\ pc = "loop" => (pc' = "forward" /\ epoch' = epoch + 1) \/ (pc' = "done" /\ epoch' = epoch)
    /\ pc # "loop" => epoch' = epoch
    /\ pc = "forward" => pc' = "loss" /\ nForward' = nForward + 1
    /\ pc = "loss" => pc' = "backward" /\ L' # None
    /\ pc = "backward" => pc' = "update" /\ todo' = Names
    /\ pc = "update" =>
          /\ todo # <<>> /\ todo' = Tail(todo)
          /\ pc' = (IF todo' = <<>> THEN "append" ELSE "update")
    /\ pc = "append" => todo = <<>> /\ pc' = "loop" /\ Len(losses') = Len(losses) + 1
    /\ pc \notin {"backward", "update"} => todo' = todo
    /\ pc # "append" => losses' = losses \/ pc = "idle"
    /\ pc # "forward" => nForward' = nForward

\* C17: the steps of every iteration occur in the order forward pass, loss,
\* backward pass, update of all four parameters, append, each once, and
\* whenever a forward pass is about to begin every parameter of the
\* iterations before it has been updated and their losses have been
\* appended.
C17_StrictOrder ==
    /\ [](pc = "forward" => todo = <<>> /\ Len(losses) = epoch - 1 /\ nForward = epoch - 1)
    /\ [][InOrder]_vars

\* The forward pass of the second iteration is about to begin, the first
\* iteration having changed the parameters and recorded its loss.
C17_Witness ==
    /\ pc = "forward" /\ epoch = 2
    /\ Len(losses) = 1
    /\ Deref(weights) # copied

\* C18: throughout a run started from a consistent parameter set the
\* parameters keep their shapes: W1 is h x d_in, b1 has length h, W2 has
\* length h and b2 is a scalar, before, during and after every iteration.
C18_ShapesPreserved ==
    /\ Consistent(X, Deref(weights), FALSE)
    /\ \A i \in 1..Len(Names) : heap[weights[Names[i]]].shape = copied[Names[i]].shape

\* An iteration has been completed, every parameter holds a new value, and
\* another iteration is to come.
C18_Witness ==
    /\ pc = "loop" /\ epoch >= 1 /\ epoch < epochs
    /\ Consistent(X, copied, FALSE)
    /\ \A i \in 1..Len(Names) : heap[weights[Names[i]]].data # copied[Names[i]].data

\* The loss of the parameter set W on the batch.
LossAt(W) == CrossEntropy(X, Y_T, forward_propagation(X, W).Y)

\* The loss a and the loss b are the same number (nan is equal to nothing).
SameNumber(a, b) == IsFin(a.data[1]) /\ a = b

\* Entry k of the history is the loss of the parameters as they were before
\* the k-th update, that is after k - 1 descent steps from the initial
\* parameters (looked at whenever an iteration has ended); the loss about to
\* be appended is the loss of the parameters the iteration started with; the
\* first entry is the loss of the initial parameters.
PreUpdateLosses ==
    /\ pc \in {"loop", "done"} =>
          /\ \A k \in 1..Len(losses) :
                losses[k] = LossAt(Trained(X, Y_T, copied, k - 1).weights)
          /\ Len(losses) >= 1 => losses[1] = LossAt(copied)
    /\ pc = "append" => L = LossAt(start)

\* C19 (as stated): the loss appended in iteration k is the loss of the
\* parameters before the k-th update, the first entry being the loss of the
\* initial parameters, and the loss of the final parameters appears nowhere
\* in the history of a finished run.
C19_FinalLossNeverAppears ==
    /\ PreUpdateLosses
    /\ pc = "done" =>
          \A k \in 1..Len(losses) : ~SameNumber(losses[k], LossAt(Deref(weights)))

\* C19 (amended): the loss appended in iteration k is the loss of the
\* parameters before the k-th update, the first entry being the loss of the
\* initial parameters, and the loss of the final parameters is never
\* evaluated or appended: a finished run has made E forward passes, all on
\* pre-update parameters, and its history has E entries, the last one being
\* the loss of the parameters before the last update.
C19_PreUpdateLossesOnly ==
    /\ PreUpdateLosses
    /\ pc = "done" =>
          /\ nForward = epochs /\ Len(losses) = epochs
          /\ epochs >= 1 => losses[epochs] = LossAt(start)

\* A run of two iterations has ended; its losses are finite and different,
\* and none of them is the loss of the final parameters.
C19_Witness ==
    /\ pc = "done" /\ Len(losses) = 2
    /\ IsFin(losses[1].data[1]) /\ IsFin(losses[2].data[1])
    /\ losses[1] # losses[2]
    /\ \A k \in 1..2 : losses[k] # LossAt(Deref(weights))

====
